---- MODULE Spec2Model ----
(***************************************************************************)
(* The buffering BIO adapters of go-openssl (bio.go): writeBio and         *)
(* readBio, the foreign entry points go_write_bio_write, go_write_bio_ctrl,*)
(* go_read_bio_read and go_read_bio_ctrl, and the connection owner's       *)
(* WriteToConn, ReadFromConnOnce, MarkEOF and Disconnect.                  *)
(*                                                                         *)
(* Threads run the operations concurrently; each operation is cut at the   *)
(* points where it takes a mutex or calls the connection, so that every    *)
(* interleaving the two sync.Mutex of an adapter allow is a behaviour.     *)
(* Bytes are numbered in the order they enter an adapter (the k-th byte    *)
(* has the value k), which makes loss, duplication and reordering visible. *)
(***************************************************************************)
EXTENDS Integers, Sequences, FiniteSets

VARIABLES
    sched,      \* "seq": one operation at a time; "conc": threads interleave;
                \* "write", "read": threads interleave on that adapter alone;
                \* "fault": threads interleave and the connection may break the
                \* contract of io.Writer; "drain": one operation at a time on a
                \* connection that accepts DrainChunk bytes a call
    nops,       \* the number of operations started so far
    pc,         \* pc[t]: the position of thread t inside its operation
    loc,        \* loc[t]: the arguments and local variables of thread t
    last,       \* history: what the step just taken returned, if it was a return
    fault,      \* a panic left a function that has no recover
    \* ---- writeBio and its BIO
    wbuf,       \* wb.buf
    wrelease,   \* wb.release_buffers
    wdata_mtx,  \* wb.data_mtx: 0 (free) or the holder
    wop_mtx,    \* wb.op_mtx
    wtok,       \* the data field of the write BIO (X_BIO_get_data)
    wtok2,      \* the data field of the BIO of a second writeBio, once made
    wflags,     \* the flags of the write BIO
    wmap,       \* writeBioMapping
    wappended,  \* history: every byte appended to wb.buf, in order
    wconn,      \* history: every byte the connection accepted, in order
    wwrites,    \* history: the counts the connection writes returned, kept when a
                \* buffer is drained
    \* ---- readBio and its BIO
    rbuf,       \* rb.buf
    reof,       \* rb.eof
    rrelease,   \* rb.release_buffers
    rdata_mtx,  \* rb.data_mtx
    rop_mtx,    \* rb.op_mtx
    rtok,       \* the data field of the read BIO
    rtok2,      \* the data field of the BIO of a second readBio, once made
    rflags,     \* the flags of the read BIO
    rmap,       \* readBioMapping
    rdelivered, \* history: every byte the connection delivered, in order
    rhanded,    \* history: every byte copied out to the engine, in order
    rchunks     \* history: the sizes of the connection reads, kept when operations
                \* run one at a time

wvars == <<wbuf, wrelease, wdata_mtx, wop_mtx, wtok, wtok2, wflags, wmap, wappended, wconn, wwrites>>
rvars == <<rbuf, reof, rrelease, rdata_mtx, rop_mtx, rtok, rtok2, rflags, rmap, rdelivered, rhanded, rchunks>>
vars == <<sched, nops, pc, loc, last, fault, wvars, rvars>>

-----------------------------------------------------------------------------
(* Bounds of the model *)

\* Threads are 1..NThreads.
NThreads == 2
\* At most MaxOps operations are started when threads interleave.
MaxOps == 3
\* At most MaxBytes bytes enter an adapter when threads interleave.
MaxBytes == 3
\* The largest size argument and the largest connection read when threads interleave.
MaxSize == 2
\* At most SeqMaxBytes bytes enter an adapter when operations run one at a time.
SeqMaxBytes == 21
\* At most SeqMaxOps operations are started when they run one at a time.
SeqMaxOps == 4
\* When a buffer is drained: at most DrainBytes bytes are appended, the connection
\* accepts DrainChunk bytes a call, and at most DrainOps operations are started.
DrainBytes == 21
DrainChunk == 5
DrainOps == 7
\* The longest buffer given to the Read and Write of an anyBio.
AnyMaxLen == 4

Threads == 1..NThreads

\* The size arguments and connection read sizes tried when operations run one at
\* a time: the sizes of the client/server scenario and the edge cases.
SeqSizes == {-1, 0, 1, 5, 6, 10, 32}

Sizes == IF sched = "seq" THEN SeqSizes ELSE IF sched = "drain" THEN 0..DrainBytes ELSE -1..MaxSize
Limit == IF sched = "seq" THEN SeqMaxBytes ELSE IF sched = "drain" THEN DrainBytes ELSE MaxBytes
Budget == IF sched = "seq" THEN SeqMaxOps ELSE IF sched = "drain" THEN DrainOps ELSE MaxOps

-----------------------------------------------------------------------------
(* Go values *)

NIL == "nil"
Min(a, b) == IF a < b THEN a ELSE b

\* A []byte: its elements b (len = Len(b)) and the capacity of its backing array.
\* The nil slice has no backing array.
NilSlice == [b |-> <<>>, cap |-> 0]
len(s) == Len(s.b)
cap(s) == s.cap

\* append(s, bytes...): in place when the capacity allows, else a new array.
append(s, bytes) ==
    [b |-> s.b \o bytes,
     cap |-> IF Len(s.b) + Len(bytes) <= s.cap THEN s.cap ELSE Len(s.b) + Len(bytes)]

\* s[:copy(s, s[n:])]: the elements from n on slide to the front of the same array.
SlideFront(s, n) == [b |-> SubSeq(s.b, n + 1, Len(s.b)), cap |-> s.cap]

\* The bytes numbered from+1 .. from+k.
Bytes(from, k) == [i \in 1..k |-> from + i]

IsPrefix(s, t) == Len(s) <= Len(t) /\ SubSeq(t, 1, Len(s)) = s

-----------------------------------------------------------------------------
(* The BIO flags (shim.h: X_BIO_clear_flags, X_BIO_set_flags) *)

BIO_FLAGS_RWS == {"READ", "WRITE", "IO_SPECIAL"}

bioClearRetryFlags(f) == f \ (BIO_FLAGS_RWS \cup {"SHOULD_RETRY"})

\* bioSetRetryRead as it would be if it set BIO_FLAGS_READ alone.
bioSetRetryRead_ReadOnly(f) == f \cup {"READ"}

bioSetRetryRead(f) == f \cup {"READ", "SHOULD_RETRY"}

\* What the engine reads after a negative return: BIO_should_retry, BIO_should_read.
ShouldRetry(f) == "SHOULD_RETRY" \in f
ShouldRead(f) == "READ" \in f

-----------------------------------------------------------------------------
(* The handle registry (newMapping, token): tokens to references *)

NoToken == 0
Tokens == 1..2

MappingGet(m, tok) == IF tok \in DOMAIN m THEN m[tok] ELSE NIL

MappingDel(m, tok) == [k \in (DOMAIN m) \ {tok} |-> m[k]]

\* A token no live entry holds.
MappingFresh(m) == CHOOSE k \in Tokens : k \notin DOMAIN m /\ \A j \in Tokens : j < k => j \in DOMAIN m

MappingAdd(m, ref) == [k \in (DOMAIN m) \cup {MappingFresh(m)} |-> IF k \in DOMAIN m THEN m[k] ELSE ref]

EmptyMapping == [k \in {} |-> NIL]

\* The tokens no live entry holds: a token is unique among the live ones only,
\* so Add may return any of these, one it returned before included.
MappingFree(m) == Tokens \ DOMAIN m

\* Add(ref) when it returns the token k.
MappingPut(m, k, ref) == [j \in (DOMAIN m) \cup {k} |-> IF j = k THEN ref ELSE m[j]]

\* The references registered.
MappingRefs(m) == {m[k] : k \in DOMAIN m}

-----------------------------------------------------------------------------
(* Threads *)

NoLoc == [data |-> NIL, size |-> 0, cmd |-> NIL, via |-> NIL, snap |-> NilSlice,
          n |-> 0, err |-> NIL, chunk |-> <<>>, tok |-> 0]
NoRet == [op |-> NIL]

\* Thread t starts an operation; when operations run one at a time, thread 1
\* runs them all. A panic that nothing recovers has ended the process.
Start(t) ==
    /\ pc[t] = "idle"
    /\ ~fault
    /\ nops < Budget
    /\ sched \in {"seq", "drain"} => t = 1
    /\ nops' = nops + 1

\* Thread t starts an operation of the write adapter, of the read adapter: a
\* behaviour that is about one adapter starts none of the other.
WStart(t) == Start(t) /\ sched # "read"
RStart(t) == Start(t) /\ sched # "write"

\* Thread t is at label inside its operation.
At(t, label) ==
    /\ pc[t] = label
    /\ ~fault
    /\ nops' = nops

\* Thread t moves on inside its operation.
Goto(t, label) ==
    /\ pc' = [pc EXCEPT ![t] = label]
    /\ last' = NoRet

\* The operation of thread t returns r.
Return(t, r) ==
    /\ pc' = [pc EXCEPT ![t] = "idle"]
    /\ loc' = [loc EXCEPT ![t] = NoLoc]
    /\ last' = r

-----------------------------------------------------------------------------
(* writeBio *)

loadWritePtr == MappingGet(wmap, wtok)

\* bio.go:79
WriteArgsBad(ptr, data, size) == ptr = NIL \/ data = NIL \/ size < 0

\* A return of go_write_bio_write: the arguments, the token the BIO held when
\* the call began, whether the adapter was found, the return code, the buffer
\* before and after, and the flags of the BIO.
WriteRet(data, size, tok, live, rc, pre, post, flags) ==
    [op |-> "go_write_bio_write", data |-> data, size |-> size, tok |-> tok, live |-> live,
     rc |-> rc, pre |-> pre, post |-> post, flags |-> flags]

\* go_write_bio_write up to the argument check.
go_write_bio_write(t) ==
    /\ WStart(t)
    /\ \E data \in {NIL, "ptr"}, size \in Sizes :
        /\ Len(wappended) + size <= Limit
        /\ IF WriteArgsBad(loadWritePtr, data, size)
           THEN Return(t, WriteRet(data, size, wtok, loadWritePtr # NIL, -1, wbuf.b, wbuf.b, wflags))
           ELSE /\ Goto(t, "ww_lock")
                /\ loc' = [loc EXCEPT ![t] = [NoLoc EXCEPT !.data = data, !.size = size, !.tok = wtok]]
    /\ UNCHANGED <<sched, fault, wvars, rvars>>

\* ptr.data_mtx.Lock()
go_write_bio_write_lock(t) ==
    /\ At(t, "ww_lock")
    /\ wdata_mtx = 0
    /\ wdata_mtx' = t
    /\ Goto(t, "ww_body")
    /\ UNCHANGED <<sched, loc, fault, wbuf, wrelease, wop_mtx, wtok, wtok2, wflags, wmap, wappended, wconn, wwrites, rvars>>

\* The critical section of go_write_bio_write and the deferred Unlock.
go_write_bio_write_body(t) ==
    /\ At(t, "ww_body")
    /\ LET bytes == Bytes(Len(wappended), loc[t].size)
           buf == append(wbuf, bytes)
           flags == bioClearRetryFlags(wflags)
       IN /\ wflags' = flags
          /\ wbuf' = buf
          /\ wappended' = wappended \o bytes
          /\ Return(t, WriteRet(loc[t].data, loc[t].size, loc[t].tok, TRUE, loc[t].size, wbuf.b, buf.b, flags))
    /\ wdata_mtx' = 0
    /\ UNCHANGED <<sched, fault, wrelease, wop_mtx, wtok, wtok2, wmap, wconn, wwrites, rvars>>

\* A return of a ctrl entry point.
CtrlRet(op, cmd, tok, live, rc, pre, post) ==
    [op |-> op, cmd |-> cmd, tok |-> tok, live |-> live, rc |-> rc, pre |-> pre, post |-> post]

WriteCmds == {"BIO_CTRL_WPENDING", "BIO_CTRL_FLUSH", "BIO_CTRL_DUP", "BIO_CTRL_OTHER"}

\* go_write_bio_ctrl: the switch, and writeBioPending and writeBioFlush up to
\* their adapter lookup.
go_write_bio_ctrl(t) ==
    /\ WStart(t)
    /\ \E cmd \in WriteCmds :
        CASE cmd = "BIO_CTRL_WPENDING" ->
                IF loadWritePtr = NIL
                THEN Return(t, CtrlRet("go_write_bio_ctrl", cmd, wtok, FALSE, 0, wbuf.b, wbuf.b))
                ELSE /\ Goto(t, "wp_lock")
                     /\ loc' = [loc EXCEPT ![t] = [NoLoc EXCEPT !.cmd = cmd, !.tok = wtok]]
          [] cmd = "BIO_CTRL_FLUSH" ->
                IF loadWritePtr = NIL
                THEN Return(t, CtrlRet("go_write_bio_ctrl", cmd, wtok, FALSE, 0, wbuf.b, wbuf.b))
                ELSE /\ Goto(t, "wf_oplock")
                     /\ loc' = [loc EXCEPT ![t] = [NoLoc EXCEPT !.cmd = cmd, !.via = "ctrl", !.tok = wtok]]
          [] cmd = "BIO_CTRL_DUP" ->
                Return(t, CtrlRet("go_write_bio_ctrl", cmd, wtok, loadWritePtr # NIL, 1, wbuf.b, wbuf.b))
          [] OTHER ->
                Return(t, CtrlRet("go_write_bio_ctrl", cmd, wtok, loadWritePtr # NIL, 0, wbuf.b, wbuf.b))
    /\ UNCHANGED <<sched, fault, wvars, rvars>>

\* PendingMutex as it would be if Pending waited for the op lock.
PendingMutex_Op(data_mtx, op_mtx) == op_mtx

\* bio.go:115 and bio.go:244: the mutex Pending waits for is ptr.data_mtx.
PendingMutex(data_mtx, op_mtx) == data_mtx

writeBioPending_lock(t) ==
    /\ At(t, "wp_lock")
    /\ PendingMutex(wdata_mtx, wop_mtx) = 0
    /\ wdata_mtx = 0
    /\ wdata_mtx' = t
    /\ Goto(t, "wp_body")
    /\ UNCHANGED <<sched, loc, fault, wbuf, wrelease, wop_mtx, wtok, wtok2, wflags, wmap, wappended, wconn, wwrites, rvars>>

writeBioPending_body(t) ==
    /\ At(t, "wp_body")
    /\ Return(t, CtrlRet("go_write_bio_ctrl", loc[t].cmd, loc[t].tok, TRUE, len(wbuf), wbuf.b, wbuf.b))
    /\ wdata_mtx' = 0
    /\ UNCHANGED <<sched, fault, wbuf, wrelease, wop_mtx, wtok, wtok2, wflags, wmap, wappended, wconn, wwrites, rvars>>

\* The connection owner calls wb.WriteToConn().
WriteToConn(t) ==
    /\ WStart(t)
    /\ Goto(t, "wf_oplock")
    /\ loc' = [loc EXCEPT ![t] = [NoLoc EXCEPT !.via = "owner"]]
    /\ UNCHANGED <<sched, fault, wvars, rvars>>

\* wb.op_mtx.Lock()
WriteToConn_oplock(t) ==
    /\ At(t, "wf_oplock")
    /\ wop_mtx = 0
    /\ wop_mtx' = t
    /\ Goto(t, "wf_lock1")
    /\ UNCHANGED <<sched, loc, fault, wbuf, wrelease, wdata_mtx, wtok, wtok2, wflags, wmap, wappended, wconn, wwrites, rvars>>

WriteToConn_lock1(t) ==
    /\ At(t, "wf_lock1")
    /\ wdata_mtx = 0
    /\ wdata_mtx' = t
    /\ Goto(t, "wf_snap")
    /\ UNCHANGED <<sched, loc, fault, wbuf, wrelease, wop_mtx, wtok, wtok2, wflags, wmap, wappended, wconn, wwrites, rvars>>

\* DeferredUnlock as it would be without defer wb.op_mtx.Unlock().
DeferredUnlock_Missing(holder) == holder

\* bio.go:134 and bio.go:251: the op lock is given up when the function is left,
\* by return or by panic.
DeferredUnlock(holder) == 0

\* UnlockBeforeIO as it would be if the data lock were kept over the connection call.
UnlockBeforeIO_Keep(holder) == holder

\* bio.go:139 and bio.go:262: the data lock is given up before the connection is
\* called; 0 is the free mutex.
UnlockBeforeIO(holder) == 0

\* FlushRc as it would be if the count were returned with an error, too.
FlushRc_IgnoreErr(n, err) == n

\* bio.go:125-129: writeBioFlush returns 0 when WriteToConn returned an error,
\* else the count.
FlushRc(n, err) == IF err # NIL THEN 0 ELSE n

\* What WriteToConn returns to its caller: (n, err) to the owner, and through
\* writeBioFlush n, or 0 when err is set; with it the bytes offered to the
\* connection and the buffer before and after the truncation.
FlushRet(via, tok, offered, n, err, pre, post) ==
    IF via = "ctrl"
    THEN [op |-> "go_write_bio_ctrl", cmd |-> "BIO_CTRL_FLUSH", tok |-> tok, live |-> TRUE,
          rc |-> FlushRc(n, err), offered |-> offered, n |-> n, err |-> err,
          pre |-> pre, post |-> post]
    ELSE [op |-> "WriteToConn", rc |-> n, offered |-> offered, n |-> n, err |-> err,
          pre |-> pre, post |-> post]

\* data := wb.buf under the data lock; with nothing to write the call returns.
WriteToConn_snap(t) ==
    /\ At(t, "wf_snap")
    /\ wdata_mtx' = UnlockBeforeIO(wdata_mtx)
    /\ IF len(wbuf) = 0
       THEN /\ Return(t, FlushRet(loc[t].via, loc[t].tok, <<>>, 0, NIL, wbuf.b, wbuf.b))
            /\ wop_mtx' = DeferredUnlock(wop_mtx)
       ELSE /\ Goto(t, "wf_write")
            /\ loc' = [loc EXCEPT ![t].snap = wbuf]
            /\ UNCHANGED wop_mtx
    /\ UNCHANGED <<sched, fault, wbuf, wrelease, wtok, wtok2, wflags, wmap, wappended, wconn, wwrites, rvars>>

\* What wb.conn.Write(data) may do: a connection that keeps the contract of
\* io.Writer returns 0 <= n <= len(data) and an error or none; one that breaks it
\* may panic, or report more bytes than it was given.
ConnWriteCounts(data) ==
    IF sched = "fault" THEN 0..(len(data) + 1)
    ELSE IF sched = "drain" THEN {Min(DrainChunk, len(data))}
    ELSE 0..len(data)
ConnWriteErrs ==
    IF sched = "fault" THEN {NIL, "err", "panic"}
    ELSE IF sched = "drain" THEN {NIL}
    ELSE {NIL, "err"}

\* What the caller of WriteToConn gets when WriteToConn panics: go_write_bio_ctrl
\* recovers and returns -1 (bio.go:91-96); the owner has no recover.
PanicRet(via, tok, buf) ==
    IF via = "ctrl"
    THEN [op |-> "go_write_bio_ctrl", cmd |-> "BIO_CTRL_FLUSH", tok |-> tok, live |-> TRUE,
          rc |-> -1, panic |-> TRUE, pre |-> buf, post |-> buf]
    ELSE [op |-> "WriteToConn", panic |-> TRUE, pre |-> buf, post |-> buf]

\* n, err := wb.conn.Write(data): the connection accepts the first n bytes. When
\* it panics the deferred op_mtx.Unlock runs.
WriteToConn_write(t) ==
    /\ At(t, "wf_write")
    /\ \E n \in ConnWriteCounts(loc[t].snap), err \in ConnWriteErrs :
        IF err = "panic"
        THEN /\ Return(t, PanicRet(loc[t].via, loc[t].tok, wbuf.b))
             /\ wop_mtx' = DeferredUnlock(wop_mtx)
             /\ fault' = (loc[t].via = "owner")
             /\ UNCHANGED <<wconn, wwrites>>
        ELSE /\ wconn' = wconn \o SubSeq(loc[t].snap.b, 1, Min(n, len(loc[t].snap)))
             /\ wwrites' = IF sched = "drain" THEN Append(wwrites, n) ELSE wwrites
             /\ loc' = [loc EXCEPT ![t].n = n, ![t].err = err]
             /\ Goto(t, "wf_lock2")
             /\ UNCHANGED <<wop_mtx, fault>>
    /\ UNCHANGED <<sched, wbuf, wrelease, wdata_mtx, wtok, wtok2, wflags, wmap, wappended, rvars>>

WriteToConn_lock2(t) ==
    /\ At(t, "wf_lock2")
    /\ wdata_mtx = 0
    /\ wdata_mtx' = t
    /\ Goto(t, "wf_trunc")
    /\ UNCHANGED <<sched, loc, fault, wbuf, wrelease, wop_mtx, wtok, wtok2, wflags, wmap, wappended, wconn, wwrites, rvars>>

\* WriteTruncate as it would be if the whole buffer were taken as written.
WriteTruncate_DropAll(buf, data, n) == SlideFront(buf, len(buf))

\* WriteTruncate as it would be if it cut the snapshot instead of the buffer.
WriteTruncate_FromSnapshot(buf, data, n) == SlideFront(data, n)

\* WriteTruncate as it would be if it cut the count of the bytes still to write.
WriteTruncate_Remaining(buf, data, n) == SlideFront(buf, len(data) - n)

\* WriteTruncate as it would be if the written bytes stayed in the buffer.
WriteTruncate_KeepAll(buf, data, n) == buf

\* bio.go:148: wb.buf = wb.buf[:copy(wb.buf, wb.buf[n:])], where data is the
\* snapshot the connection write was given.
WriteTruncate(buf, data, n) == SlideFront(buf, n)

\* bio.go:149 and bio.go:213
Release(release_buffers, buf) == IF release_buffers /\ len(buf) = 0 THEN NilSlice ELSE buf

\* bio.go:148: wb.buf[n:] is out of range when n is more than len(wb.buf).
TruncOutOfRange(buf, n) == n > len(buf)

\* The second critical section of WriteToConn and its return. The Unlock of
\* data_mtx at bio.go:152 is not deferred: a panic at bio.go:148 skips it, and
\* only the deferred op_mtx.Unlock runs.
WriteToConn_trunc(t) ==
    /\ At(t, "wf_trunc")
    /\ IF TruncOutOfRange(wbuf, loc[t].n)
       THEN /\ Return(t, PanicRet(loc[t].via, loc[t].tok, wbuf.b))
            /\ fault' = (loc[t].via = "owner")
            /\ UNCHANGED <<wbuf, wdata_mtx>>
       ELSE /\ LET buf == Release(wrelease, WriteTruncate(wbuf, loc[t].snap, loc[t].n))
               IN /\ wbuf' = buf
                  /\ Return(t, FlushRet(loc[t].via, loc[t].tok, loc[t].snap.b, loc[t].n, loc[t].err, wbuf.b, buf.b))
            /\ wdata_mtx' = 0
            /\ UNCHANGED fault
    /\ wop_mtx' = DeferredUnlock(wop_mtx)
    /\ UNCHANGED <<sched, wrelease, wtok, wtok2, wflags, wmap, wappended, wconn, wwrites, rvars>>

\* Disconnect as it would be without C.X_BIO_set_data(b, nil).
ClearData_Keep(data) == data

\* bio.go:160 and bio.go:288: C.X_BIO_set_data(b, nil)
ClearData(data) == NoToken

\* wb.Disconnect(b): the lookup and comparison.
WriteDisconnect(t) ==
    /\ WStart(t)
    /\ IF loadWritePtr = "wb"
       THEN Goto(t, "wd_del") /\ UNCHANGED loc
       ELSE Return(t, [op |-> "Disconnect", side |-> "w", hit |-> FALSE])
    /\ UNCHANGED <<sched, fault, wvars, rvars>>

\* writeBioMapping.Del(token(C.X_BIO_get_data(b)))
WriteDisconnect_del(t) ==
    /\ At(t, "wd_del")
    /\ wmap' = MappingDel(wmap, wtok)
    /\ Goto(t, "wd_clear")
    /\ UNCHANGED <<sched, loc, fault, wbuf, wrelease, wdata_mtx, wop_mtx, wtok, wtok2, wflags, wappended, wconn, wwrites, rvars>>

\* C.X_BIO_set_data(b, nil)
WriteDisconnect_clear(t) ==
    /\ At(t, "wd_clear")
    /\ wtok' = ClearData(wtok)
    /\ Return(t, [op |-> "Disconnect", side |-> "w", hit |-> TRUE])
    /\ UNCHANGED <<sched, fault, wbuf, wrelease, wdata_mtx, wop_mtx, wtok2, wflags, wmap, wappended, wconn, wwrites, rvars>>

WStep(t) ==
    \/ go_write_bio_write(t)
    \/ go_write_bio_write_lock(t)
    \/ go_write_bio_write_body(t)
    \/ go_write_bio_ctrl(t)
    \/ writeBioPending_lock(t)
    \/ writeBioPending_body(t)
    \/ WriteToConn(t)
    \/ WriteToConn_oplock(t)
    \/ WriteToConn_lock1(t)
    \/ WriteToConn_snap(t)
    \/ WriteToConn_write(t)
    \/ WriteToConn_lock2(t)
    \/ WriteToConn_trunc(t)
    \/ WriteDisconnect(t)
    \/ WriteDisconnect_del(t)
    \/ WriteDisconnect_clear(t)

WNext == \E t \in Threads : WStep(t)

-----------------------------------------------------------------------------
(* readBio *)

SSLRecordSize == 16 * 1024

loadReadPtr == MappingGet(rmap, rtok)

\* bio.go:195
ReadArgsBad(ptr, size) == ptr = NIL \/ size < 0

\* BufferDrained as it would be if eof were enough to end the stream.
BufferDrained_OrEof(buf, eof) == len(buf) = 0 \/ eof

\* bio.go:201: len(ptr.buf) == 0; eof is looked at only then.
BufferDrained(buf, eof) == len(buf) = 0

\* EmptyRead as it would be if it did not look at eof.
EmptyRead_IgnoreEof(eof, flags) == [rc |-> -1, flags |-> bioSetRetryRead(flags)]

\* bio.go:201-207: the buffer is empty.
EmptyRead(eof, flags) ==
    IF eof THEN [rc |-> 0, flags |-> flags]
    ELSE [rc |-> -1, flags |-> bioSetRetryRead(flags)]

\* bio.go:208
ReadPeek(data, size) == size = 0 \/ data = NIL

\* bio.go:211: n := copy(nonCopyCString(data, size), ptr.buf)
ReadCopy(size, buf) == Min(size, len(buf))

\* bio.go:212: ptr.buf = ptr.buf[:copy(ptr.buf, ptr.buf[n:])]
ReadCompact(buf, n) == SlideFront(buf, n)

\* A return of go_read_bio_read: the arguments, the token the BIO held when the
\* call began, whether the adapter was found, the return code, the bytes copied
\* out, the buffer before and after, eof as the call saw it, and the flags of
\* the BIO.
ReadRet(data, size, tok, live, rc, out, pre, post, eof, flags) ==
    [op |-> "go_read_bio_read", data |-> data, size |-> size, tok |-> tok, live |-> live, rc |-> rc,
     out |-> out, pre |-> pre, post |-> post, eof |-> eof, flags |-> flags]

\* go_read_bio_read up to the argument check.
go_read_bio_read(t) ==
    /\ RStart(t)
    /\ \E data \in {NIL, "ptr"}, size \in Sizes :
        IF ReadArgsBad(loadReadPtr, size)
        THEN Return(t, ReadRet(data, size, rtok, loadReadPtr # NIL, -1, <<>>, rbuf.b, rbuf.b, reof, rflags))
        ELSE /\ Goto(t, "rr_lock")
             /\ loc' = [loc EXCEPT ![t] = [NoLoc EXCEPT !.data = data, !.size = size, !.tok = rtok]]
    /\ UNCHANGED <<sched, fault, wvars, rvars>>

\* ptr.data_mtx.Lock()
go_read_bio_read_lock(t) ==
    /\ At(t, "rr_lock")
    /\ rdata_mtx = 0
    /\ rdata_mtx' = t
    /\ Goto(t, "rr_body")
    /\ UNCHANGED <<sched, loc, fault, wvars, rbuf, reof, rrelease, rop_mtx, rtok, rtok2, rflags, rmap, rdelivered, rhanded, rchunks>>

\* The critical section of go_read_bio_read and the deferred Unlock.
go_read_bio_read_body(t) ==
    /\ At(t, "rr_body")
    /\ LET data == loc[t].data
           size == loc[t].size
           cleared == bioClearRetryFlags(rflags)
       IN IF BufferDrained(rbuf, reof)
          THEN LET e == EmptyRead(reof, cleared)
               IN /\ rflags' = e.flags
                  /\ Return(t, ReadRet(data, size, loc[t].tok, TRUE, e.rc, <<>>, rbuf.b, rbuf.b, reof, e.flags))
                  /\ UNCHANGED <<rbuf, rhanded>>
          ELSE IF ReadPeek(data, size)
          THEN /\ rflags' = cleared
               /\ Return(t, ReadRet(data, size, loc[t].tok, TRUE, len(rbuf), <<>>, rbuf.b, rbuf.b, reof, cleared))
               /\ UNCHANGED <<rbuf, rhanded>>
          ELSE LET n == ReadCopy(size, rbuf)
                   out == SubSeq(rbuf.b, 1, n)
                   buf == Release(rrelease, ReadCompact(rbuf, n))
               IN /\ rflags' = cleared
                  /\ rbuf' = buf
                  /\ rhanded' = rhanded \o out
                  /\ Return(t, ReadRet(data, size, loc[t].tok, TRUE, n, out, rbuf.b, buf.b, reof, cleared))
    /\ rdata_mtx' = 0
    /\ UNCHANGED <<sched, fault, wvars, reof, rrelease, rop_mtx, rtok, rtok2, rmap, rdelivered, rchunks>>

ReadCmds == {"BIO_CTRL_PENDING", "BIO_CTRL_FLUSH", "BIO_CTRL_DUP", "BIO_CTRL_OTHER"}

\* go_read_bio_ctrl: the switch, and readBioPending up to its adapter lookup.
go_read_bio_ctrl(t) ==
    /\ RStart(t)
    /\ \E cmd \in ReadCmds :
        CASE cmd = "BIO_CTRL_PENDING" ->
                IF loadReadPtr = NIL
                THEN Return(t, CtrlRet("go_read_bio_ctrl", cmd, rtok, FALSE, 0, rbuf.b, rbuf.b))
                ELSE /\ Goto(t, "rp_lock")
                     /\ loc' = [loc EXCEPT ![t] = [NoLoc EXCEPT !.cmd = cmd, !.tok = rtok]]
          [] cmd \in {"BIO_CTRL_DUP", "BIO_CTRL_FLUSH"} ->
                Return(t, CtrlRet("go_read_bio_ctrl", cmd, rtok, loadReadPtr # NIL, 1, rbuf.b, rbuf.b))
          [] OTHER ->
                Return(t, CtrlRet("go_read_bio_ctrl", cmd, rtok, loadReadPtr # NIL, 0, rbuf.b, rbuf.b))
    /\ UNCHANGED <<sched, fault, wvars, rvars>>

readBioPending_lock(t) ==
    /\ At(t, "rp_lock")
    /\ PendingMutex(rdata_mtx, rop_mtx) = 0
    /\ rdata_mtx = 0
    /\ rdata_mtx' = t
    /\ Goto(t, "rp_body")
    /\ UNCHANGED <<sched, loc, fault, wvars, rbuf, reof, rrelease, rop_mtx, rtok, rtok2, rflags, rmap, rdelivered, rhanded, rchunks>>

readBioPending_body(t) ==
    /\ At(t, "rp_body")
    /\ Return(t, CtrlRet("go_read_bio_ctrl", loc[t].cmd, loc[t].tok, TRUE, len(rbuf), rbuf.b, rbuf.b))
    /\ rdata_mtx' = 0
    /\ UNCHANGED <<sched, fault, wvars, rbuf, reof, rrelease, rop_mtx, rtok, rtok2, rflags, rmap, rdelivered, rhanded, rchunks>>

\* The connection owner calls rb.ReadFromConnOnce().
ReadFromConnOnce(t) ==
    /\ RStart(t)
    /\ Goto(t, "rf_oplock")
    /\ UNCHANGED <<sched, loc, fault, wvars, rvars>>

\* rb.op_mtx.Lock()
ReadFromConnOnce_oplock(t) ==
    /\ At(t, "rf_oplock")
    /\ rop_mtx = 0
    /\ rop_mtx' = t
    /\ Goto(t, "rf_lock1")
    /\ UNCHANGED <<sched, loc, fault, wvars, rbuf, reof, rrelease, rdata_mtx, rtok, rtok2, rflags, rmap, rdelivered, rhanded, rchunks>>

ReadFromConnOnce_lock1(t) ==
    /\ At(t, "rf_lock1")
    /\ rdata_mtx = 0
    /\ rdata_mtx' = t
    /\ Goto(t, "rf_grow")
    /\ UNCHANGED <<sched, loc, fault, wvars, rbuf, reof, rrelease, rop_mtx, rtok, rtok2, rflags, rmap, rdelivered, rhanded, rchunks>>

\* Grow as it would be without copy(new_buf, rb.buf): make zeroes the new array.
Grow_NoCopy(buf) ==
    IF cap(buf) < len(buf) + SSLRecordSize
    THEN [b |-> [i \in 1..len(buf) |-> 0], cap |-> len(buf) + SSLRecordSize]
    ELSE buf

\* Grow as it would be if the new array were one record long whatever it holds.
Grow_OneRecord(buf) ==
    IF cap(buf) < len(buf) + SSLRecordSize
    THEN [b |-> buf.b, cap |-> SSLRecordSize]
    ELSE buf

\* bio.go:255-259: a new backing array with room for one record after the bytes
\* held, which are copied over.
Grow(buf) ==
    IF cap(buf) < len(buf) + SSLRecordSize
    THEN [b |-> buf.b, cap |-> len(buf) + SSLRecordSize]
    ELSE buf

\* The first critical section of ReadFromConnOnce: rb.buf is grown, dst is the
\* tail rb.buf[len(rb.buf):cap(rb.buf)] and dst_slice is rb.buf as it is now.
ReadFromConnOnce_grow(t) ==
    /\ At(t, "rf_grow")
    /\ rbuf' = Grow(rbuf)
    /\ loc' = [loc EXCEPT ![t].snap = Grow(rbuf)]
    /\ rdata_mtx' = UnlockBeforeIO(rdata_mtx)
    /\ Goto(t, "rf_read")
    /\ UNCHANGED <<sched, fault, wvars, reof, rrelease, rop_mtx, rtok, rtok2, rflags, rmap, rdelivered, rhanded, rchunks>>

\* n, err = rb.conn.Read(dst): the connection stores its next n bytes at the
\* front of dst.
ReadFromConnOnce_read(t) ==
    /\ At(t, "rf_read")
    /\ \E n \in {k \in Sizes : k >= 0}, err \in {NIL, "EOF", "err"} :
        /\ n <= cap(loc[t].snap) - len(loc[t].snap)
        /\ Len(rdelivered) + n <= Limit
        /\ loc' = [loc EXCEPT ![t].n = n, ![t].err = err, ![t].chunk = Bytes(Len(rdelivered), n)]
        /\ rdelivered' = rdelivered \o Bytes(Len(rdelivered), n)
        /\ rchunks' = IF sched = "seq" THEN Append(rchunks, n) ELSE rchunks
    /\ Goto(t, "rf_lock2")
    /\ UNCHANGED <<sched, fault, wvars, rbuf, reof, rrelease, rdata_mtx, rop_mtx, rtok, rtok2, rflags, rmap, rhanded>>

ReadFromConnOnce_lock2(t) ==
    /\ At(t, "rf_lock2")
    /\ rdata_mtx = 0
    /\ rdata_mtx' = t
    /\ Goto(t, "rf_finish")
    /\ UNCHANGED <<sched, loc, fault, wvars, rbuf, reof, rrelease, rop_mtx, rtok, rtok2, rflags, rmap, rdelivered, rhanded, rchunks>>

\* bio.go:268: someone shrunk the buffer.
SlideNeeded(dst_slice, buf) == len(dst_slice) # len(buf)

\* bio.go:271 and bio.go:273: buf[len(buf):len(buf)+n] and buf[:len(buf)+n] are
\* out of range when the backing array of buf ends before len(buf)+n.
OutOfRange(buf, n) == len(buf) + n > cap(buf)

\* The element at position pos (from 1) of the backing array rb.buf shares with
\* dst_slice, past the elements of rb.buf: the connection read stored chunk
\* right after the len(dst_slice) elements held then; 0 stands for whatever an
\* older use of the array left anywhere else.
ArrayAt(dst_slice, chunk, pos) ==
    IF pos > len(dst_slice) /\ pos <= len(dst_slice) + Len(chunk)
    THEN chunk[pos - len(dst_slice)]
    ELSE 0

\* bio.go:267-274: the elements rb.buf gains, n > 0 of them.
Gained(buf, dst_slice, chunk) ==
    IF SlideNeeded(dst_slice, buf)
    THEN chunk
    ELSE [i \in 1..Len(chunk) |-> ArrayAt(dst_slice, chunk, len(buf) + i)]

\* A return of ReadFromConnOnce: the bytes the connection read stored, its
\* error, whether the function panicked, and the buffer and eof before and after
\* the second critical section.
OnceRet(chunk, err, panic, pre, post, eofpre, eofpost) ==
    [op |-> "ReadFromConnOnce", n |-> Len(chunk), chunk |-> chunk, err |-> err, panic |-> panic,
     pre |-> pre, post |-> post, eofpre |-> eofpre, eofpost |-> eofpost]

\* The second critical section of ReadFromConnOnce and its return; the deferred
\* Unlocks run when the function panics, too.
ReadFromConnOnce_finish(t) ==
    /\ At(t, "rf_finish")
    /\ LET n == loc[t].n
           chunk == loc[t].chunk
       IN IF n > 0 /\ OutOfRange(rbuf, n)
          THEN /\ fault' = TRUE
               /\ Return(t, OnceRet(chunk, loc[t].err, TRUE, rbuf.b, rbuf.b, reof, reof))
               /\ UNCHANGED rbuf
          ELSE LET buf == IF n > 0
                          THEN [b |-> rbuf.b \o Gained(rbuf, loc[t].snap, chunk), cap |-> rbuf.cap]
                          ELSE rbuf
               IN /\ rbuf' = buf
                  /\ Return(t, OnceRet(chunk, loc[t].err, FALSE, rbuf.b, buf.b, reof, reof))
                  /\ UNCHANGED fault
    /\ rdata_mtx' = 0
    /\ rop_mtx' = DeferredUnlock(rop_mtx)
    /\ UNCHANGED <<sched, wvars, reof, rrelease, rtok, rtok2, rflags, rmap, rdelivered, rhanded, rchunks>>

\* The connection owner calls rb.MarkEOF().
MarkEOF(t) ==
    /\ RStart(t)
    /\ Goto(t, "me_lock")
    /\ UNCHANGED <<sched, loc, fault, wvars, rvars>>

MarkEOF_lock(t) ==
    /\ At(t, "me_lock")
    /\ rdata_mtx = 0
    /\ rdata_mtx' = t
    /\ Goto(t, "me_body")
    /\ UNCHANGED <<sched, loc, fault, wvars, rbuf, reof, rrelease, rop_mtx, rtok, rtok2, rflags, rmap, rdelivered, rhanded, rchunks>>

\* MarkEOF as it would be if it flipped rb.eof.
MarkEOFValue_Toggle(eof) == ~eof

\* bio.go:295: rb.eof = true
MarkEOFValue(eof) == TRUE

MarkEOF_body(t) ==
    /\ At(t, "me_body")
    /\ reof' = MarkEOFValue(reof)
    /\ Return(t, [op |-> "MarkEOF", pre |-> rbuf.b, post |-> rbuf.b])
    /\ rdata_mtx' = 0
    /\ UNCHANGED <<sched, fault, wvars, rbuf, rrelease, rop_mtx, rtok, rtok2, rflags, rmap, rdelivered, rhanded, rchunks>>

\* rb.Disconnect(b): the lookup and comparison.
ReadDisconnect(t) ==
    /\ RStart(t)
    /\ IF loadReadPtr = "rb"
       THEN Goto(t, "rd_del") /\ UNCHANGED loc
       ELSE Return(t, [op |-> "Disconnect", side |-> "r", hit |-> FALSE])
    /\ UNCHANGED <<sched, fault, wvars, rvars>>

\* readBioMapping.Del(token(C.X_BIO_get_data(b)))
ReadDisconnect_del(t) ==
    /\ At(t, "rd_del")
    /\ rmap' = MappingDel(rmap, rtok)
    /\ Goto(t, "rd_clear")
    /\ UNCHANGED <<sched, loc, fault, wvars, rbuf, reof, rrelease, rdata_mtx, rop_mtx, rtok, rtok2, rflags, rdelivered, rhanded, rchunks>>

\* C.X_BIO_set_data(b, nil)
ReadDisconnect_clear(t) ==
    /\ At(t, "rd_clear")
    /\ rtok' = ClearData(rtok)
    /\ Return(t, [op |-> "Disconnect", side |-> "r", hit |-> TRUE])
    /\ UNCHANGED <<sched, fault, wvars, rbuf, reof, rrelease, rdata_mtx, rop_mtx, rtok2, rflags, rmap, rdelivered, rhanded, rchunks>>

RStep(t) ==
    \/ go_read_bio_read(t)
    \/ go_read_bio_read_lock(t)
    \/ go_read_bio_read_body(t)
    \/ go_read_bio_ctrl(t)
    \/ readBioPending_lock(t)
    \/ readBioPending_body(t)
    \/ ReadFromConnOnce(t)
    \/ ReadFromConnOnce_oplock(t)
    \/ ReadFromConnOnce_lock1(t)
    \/ ReadFromConnOnce_grow(t)
    \/ ReadFromConnOnce_read(t)
    \/ ReadFromConnOnce_lock2(t)
    \/ ReadFromConnOnce_finish(t)
    \/ MarkEOF(t)
    \/ MarkEOF_lock(t)
    \/ MarkEOF_body(t)
    \/ ReadDisconnect(t)
    \/ ReadDisconnect_del(t)
    \/ ReadDisconnect_clear(t)

RNext == \E t \in Threads : RStep(t)

-----------------------------------------------------------------------------
(* The registries as other streams of the process use them *)

\* wb2.MakeCBIO() for a second writeBio wb2: writeBioMapping.Add registers it
\* under a token no live entry holds, and the token goes into its new BIO.
WriteMakeCBIO(t) ==
    /\ Start(t)
    /\ wtok2 = NoToken
    /\ \E k \in MappingFree(wmap) :
        /\ wmap' = MappingPut(wmap, k, "wb2")
        /\ wtok2' = k
        /\ Return(t, [op |-> "MakeCBIO", side |-> "w", token |-> k, held |-> DOMAIN wmap])
    /\ UNCHANGED <<sched, fault, wbuf, wrelease, wdata_mtx, wop_mtx, wtok, wflags, wappended, wconn, wwrites, rvars>>

\* rb2.MakeCBIO() for a second readBio rb2.
ReadMakeCBIO(t) ==
    /\ Start(t)
    /\ rtok2 = NoToken
    /\ \E k \in MappingFree(rmap) :
        /\ rmap' = MappingPut(rmap, k, "rb2")
        /\ rtok2' = k
        /\ Return(t, [op |-> "MakeCBIO", side |-> "r", token |-> k, held |-> DOMAIN rmap])
    /\ UNCHANGED <<sched, fault, wvars, rbuf, reof, rrelease, rdata_mtx, rop_mtx, rtok, rflags, rdelivered, rhanded, rchunks>>

\* loadWritePtr(b), as a foreign entry point calls it first, on the BIO of wb
\* (bio 1) or on the BIO of wb2 (bio 2).
WriteLookup(t) ==
    /\ Start(t)
    /\ \E bio \in {1, 2} :
        /\ bio = 2 => wtok2 # NoToken
        /\ LET data == IF bio = 1 THEN wtok ELSE wtok2
           IN Return(t, [op |-> "loadPtr", side |-> "w", bio |-> bio, token |-> data,
                         ptr |-> MappingGet(wmap, data)])
    /\ UNCHANGED <<sched, fault, wvars, rvars>>

\* loadReadPtr(b) on the BIO of rb (bio 1) or on the BIO of rb2 (bio 2).
ReadLookup(t) ==
    /\ Start(t)
    /\ \E bio \in {1, 2} :
        /\ bio = 2 => rtok2 # NoToken
        /\ LET data == IF bio = 1 THEN rtok ELSE rtok2
           IN Return(t, [op |-> "loadPtr", side |-> "r", bio |-> bio, token |-> data,
                         ptr |-> MappingGet(rmap, data)])
    /\ UNCHANGED <<sched, fault, wvars, rvars>>

DStep(t) ==
    \/ WriteMakeCBIO(t)
    \/ ReadMakeCBIO(t)
    \/ WriteLookup(t)
    \/ ReadLookup(t)
    \/ WriteDisconnect(t)
    \/ WriteDisconnect_del(t)
    \/ WriteDisconnect_clear(t)
    \/ ReadDisconnect(t)
    \/ ReadDisconnect_del(t)
    \/ ReadDisconnect_clear(t)

DNext == \E t \in Threads : DStep(t)

-----------------------------------------------------------------------------
(* anyBio: Read and Write straight on a BIO *)

\* What X_BIO_read and X_BIO_write return for size bytes: the count moved, 0 or
\* -1 when nothing was, -2 when the BIO does not implement the call.
ForeignResults(size) == -2..size

\* anyBioReadErr as it would be if the end of the stream were no error.
anyBioReadErr_Nil(n) == NIL

\* bio.go:307-310: what Read returns as err for the result n of X_BIO_read.
anyBioReadErr(n) == IF n <= 0 THEN "io.EOF" ELSE NIL

\* bio.go:302-311: (n, err) of Read for a buffer of buflen bytes, and whether
\* X_BIO_read was called, where r is what X_BIO_read returns.
anyBioRead(buflen, r) ==
    IF buflen = 0 THEN [n |-> 0, err |-> NIL, called |-> FALSE]
    ELSE [n |-> IF r <= 0 THEN 0 ELSE r, err |-> anyBioReadErr(r), called |-> TRUE]

\* bio.go:313-322: (n, err) of Write, where r is what X_BIO_write returns.
anyBioWrite(buflen, r) ==
    IF buflen = 0 THEN [n |-> 0, err |-> NIL, called |-> FALSE]
    ELSE [n |-> r, err |-> IF r # buflen THEN "BIO write failed" ELSE NIL, called |-> TRUE]

\* b.Read(buf)
anyBio_Read(t) ==
    /\ Start(t)
    /\ \E buflen \in 0..AnyMaxLen :
        \E r \in IF buflen = 0 THEN {0} ELSE ForeignResults(buflen) :
            LET ret == anyBioRead(buflen, r)
            IN Return(t, [op |-> "anyBio.Read", buflen |-> buflen, r |-> r,
                          n |-> ret.n, err |-> ret.err, called |-> ret.called])
    /\ UNCHANGED <<sched, fault, wvars, rvars>>

\* b.Write(buf)
anyBio_Write(t) ==
    /\ Start(t)
    /\ \E buflen \in 0..AnyMaxLen :
        \E r \in IF buflen = 0 THEN {0} ELSE ForeignResults(buflen) :
            LET ret == anyBioWrite(buflen, r)
            IN Return(t, [op |-> "anyBio.Write", buflen |-> buflen, r |-> r,
                          n |-> ret.n, err |-> ret.err, called |-> ret.called])
    /\ UNCHANGED <<sched, fault, wvars, rvars>>

ANext == \E t \in Threads : anyBio_Read(t) \/ anyBio_Write(t)

-----------------------------------------------------------------------------
(* The state after construction: both adapters made, MakeCBIO called on each *)

InitCommon ==
    /\ nops = 0
    /\ pc = [t \in Threads |-> "idle"]
    /\ loc = [t \in Threads |-> NoLoc]
    /\ last = NoRet
    /\ fault = FALSE
    /\ wbuf = NilSlice
    /\ wdata_mtx = 0
    /\ wop_mtx = 0
    /\ wmap = MappingAdd(EmptyMapping, "wb")
    /\ wtok = MappingFresh(EmptyMapping)
    /\ wtok2 = NoToken
    /\ wflags = {}
    /\ wappended = <<>>
    /\ wconn = <<>>
    /\ wwrites = <<>>
    /\ rbuf = NilSlice
    /\ reof = FALSE
    /\ rdata_mtx = 0
    /\ rop_mtx = 0
    /\ rmap = MappingAdd(EmptyMapping, "rb")
    /\ rtok = MappingFresh(EmptyMapping)
    /\ rtok2 = NoToken
    /\ rflags = {}
    /\ rdelivered = <<>>
    /\ rhanded = <<>>
    /\ rchunks = <<>>

\* release_buffers is set when the adapter is made; a specification of one
\* adapter tries both values for it.
InitW == sched = "conc" /\ InitCommon /\ wrelease \in BOOLEAN /\ rrelease = FALSE
InitWSeq == sched = "seq" /\ InitCommon /\ wrelease \in BOOLEAN /\ rrelease = FALSE
InitR == sched = "conc" /\ InitCommon /\ wrelease = FALSE /\ rrelease \in BOOLEAN
InitRSeq == sched = "seq" /\ InitCommon /\ wrelease = FALSE /\ rrelease \in BOOLEAN
Init == sched = "conc" /\ InitCommon /\ wrelease \in BOOLEAN /\ rrelease \in BOOLEAN
InitEither ==
    \/ sched = "write" /\ InitCommon /\ wrelease \in BOOLEAN /\ rrelease = FALSE
    \/ sched = "read" /\ InitCommon /\ wrelease = FALSE /\ rrelease \in BOOLEAN
InitDrain == sched = "drain" /\ InitCommon /\ wrelease \in BOOLEAN /\ rrelease = FALSE
InitA == sched = "conc" /\ InitCommon /\ wrelease = FALSE /\ rrelease = FALSE
InitF == sched = "fault" /\ InitCommon /\ wrelease \in BOOLEAN /\ rrelease \in BOOLEAN
InitD == sched = "conc" /\ InitCommon /\ wrelease = FALSE /\ rrelease = FALSE
InitDSeq == sched = "seq" /\ InitCommon /\ wrelease = FALSE /\ rrelease = FALSE

Next == WNext \/ RNext

\* A buffer is filled and then drained: no Append once the connection was written to.
DrainNext ==
    \E t \in Threads :
        \/ go_write_bio_write(t) /\ wwrites = <<>>
        \/ go_write_bio_write_lock(t)
        \/ go_write_bio_write_body(t)
        \/ go_write_bio_ctrl(t)
        \/ writeBioPending_lock(t)
        \/ writeBioPending_body(t)
        \/ WriteToConn(t)
        \/ WriteToConn_oplock(t)
        \/ WriteToConn_lock1(t)
        \/ WriteToConn_snap(t)
        \/ WriteToConn_write(t)
        \/ WriteToConn_lock2(t)
        \/ WriteToConn_trunc(t)

\* The write adapter under interleaving threads, and one operation at a time.
SpecW == InitW /\ [][WNext]_vars
SpecWSeq == InitWSeq /\ [][WNext]_vars
\* The read adapter under interleaving threads, and one operation at a time.
SpecR == InitR /\ [][RNext]_vars
SpecRSeq == InitRSeq /\ [][RNext]_vars
\* Both adapters of one connection.
Spec == Init /\ [][Next]_vars
\* One adapter, either of the two: the adapters share no state, and a statement
\* about both is checked on each.
SpecEither == InitEither /\ [][Next]_vars
\* The write adapter drained through a connection that accepts DrainChunk bytes a call.
SpecDrain == InitDrain /\ [][DrainNext]_vars
\* Read and Write of an anyBio.
SpecA == InitA /\ [][ANext]_vars
\* Both adapters on a connection that may break the contract of io.Writer.
SpecF == InitF /\ [][Next]_vars

\* The steps of thread t inside an operation that wait for nothing but a mutex:
\* every step but the start of an operation and the connection call.
WContinue(t) ==
    \/ go_write_bio_write_lock(t)
    \/ go_write_bio_write_body(t)
    \/ writeBioPending_lock(t)
    \/ writeBioPending_body(t)
    \/ WriteToConn_oplock(t)
    \/ WriteToConn_lock1(t)
    \/ WriteToConn_snap(t)
    \/ WriteToConn_lock2(t)
    \/ WriteToConn_trunc(t)
    \/ WriteDisconnect_del(t)
    \/ WriteDisconnect_clear(t)

RContinue(t) ==
    \/ go_read_bio_read_lock(t)
    \/ go_read_bio_read_body(t)
    \/ readBioPending_lock(t)
    \/ readBioPending_body(t)
    \/ ReadFromConnOnce_oplock(t)
    \/ ReadFromConnOnce_lock1(t)
    \/ ReadFromConnOnce_grow(t)
    \/ ReadFromConnOnce_lock2(t)
    \/ ReadFromConnOnce_finish(t)
    \/ MarkEOF_lock(t)
    \/ MarkEOF_body(t)
    \/ ReadDisconnect_del(t)
    \/ ReadDisconnect_clear(t)

\* The connection call of thread t.
ConnCall(t) == WriteToConn_write(t) \/ ReadFromConnOnce_read(t)

\* One adapter with the scheduler and the mutexes of Go: a goroutine that can
\* run does run, and a mutex that is free is given to a goroutine that waits for
\* it. The connection call may take for ever.
SpecStall == SpecEither /\ \A t \in Threads : WF_vars(WContinue(t) \/ RContinue(t))
\* The same with a connection whose every call returns.
SpecLive == SpecStall /\ \A t \in Threads : WF_vars(ConnCall(t))
\* Registration, lookup and Disconnect in registries that other streams use,
\* under interleaving threads, and one operation at a time.
SpecD == InitD /\ [][DNext]_vars
SpecDSeq == InitDSeq /\ [][DNext]_vars

-----------------------------------------------------------------------------
(* Properties *)

Idle == \A t \in Threads : pc[t] = "idle"

IsRead == last.op = "go_read_bio_read"
IsWrite == last.op = "go_write_bio_write"

\* The retry flags of a BIO are clear.
RetryClear(f) == f \cap (BIO_FLAGS_RWS \cup {"SHOULD_RETRY"}) = {}

\* The bytes of s after the first n.
Drop(s, n) == SubSeq(s, n + 1, Len(s))

\* C1: with Append and Flush called one after the other and a connection that
\* accepts any number of the bytes offered, the bytes the connection accepted
\* are always a prefix of the bytes appended, they are all of them whenever the
\* buffer is empty, and between two calls the accepted bytes followed by the
\* buffered ones are exactly the appended ones.
C1_WriteFifo ==
    /\ IsPrefix(wconn, wappended)
    /\ len(wbuf) = 0 => wconn = wappended
    /\ Idle => wconn \o wbuf.b = wappended

\* A Flush empties a buffer of which an earlier Flush wrote only a part.
C1_Witness ==
    /\ last.op = "WriteToConn"
    /\ last.n > 0
    /\ last.post = <<>>
    /\ Len(wconn) > last.n
    /\ Len(wappended) > Len(wconn) - last.n
    /\ wconn = wappended

\* C2: with ReadFromConnOnce and ReadRequest called one after the other, the
\* bytes handed to the engine are always a prefix of the bytes the connection
\* delivered, between two calls the handed bytes followed by the buffered ones
\* are exactly the delivered ones (so they are all of them when the buffer is
\* empty), and after reads of 5, 10 and 6 bytes the first ReadRequest(32) on
\* the live adapter returns all 21 bytes in order.
C2_ReadFifo ==
    /\ IsPrefix(rhanded, rdelivered)
    /\ Idle => rhanded \o rbuf.b = rdelivered
    /\ Idle /\ len(rbuf) = 0 => rhanded = rdelivered
    /\ (IsRead /\ last.live /\ rchunks = <<5, 10, 6>> /\ last.size = 32 /\ last.data # NIL
            /\ rhanded = last.out)
            => last.rc = 21 /\ last.out = Bytes(0, 21)

\* The scenario: reads of 5, 10 and 6 bytes, then one ReadRequest(32).
C2_Witness ==
    /\ IsRead
    /\ rchunks = <<5, 10, 6>>
    /\ last.size = 32
    /\ last.rc = 21
    /\ rhanded = rdelivered

\* The bytes of the buffer a Flush in progress has already written.
InFlight == IF \E t \in Threads : pc[t] \in {"wf_lock2", "wf_trunc"}
            THEN loc[CHOOSE t \in Threads : pc[t] \in {"wf_lock2", "wf_trunc"}].n
            ELSE 0

\* C3: with Append and Flush interleaving, at most one thread is inside the
\* connection write, the accepted bytes are a prefix of the appended ones, and
\* the accepted bytes followed by the buffered bytes not yet accepted are
\* exactly the appended bytes: the truncation drops nothing that was appended
\* meanwhile, and nothing is written twice.
C3_ConcurrentWriteFifo ==
    /\ Cardinality({t \in Threads : pc[t] \in {"wf_write", "wf_lock2", "wf_trunc"}}) <= 1
    /\ IsPrefix(wconn, wappended)
    /\ InFlight <= len(wbuf)
    /\ wconn \o Drop(wbuf.b, InFlight) = wappended

\* A Flush returns that cut a buffer longer than its snapshot: an Append ran
\* between the snapshot and the truncation.
C3_Witness ==
    /\ last.op \in {"WriteToConn", "go_write_bio_ctrl"}
    /\ "offered" \in DOMAIN last
    /\ last.n > 0
    /\ Len(last.pre) > Len(last.offered)
    /\ last.post # <<>>

\* C4: ReadFromConnOnce never panics, and the bytes it read follow the bytes
\* still unread, whatever a ReadRequest did to the buffer during the connection
\* read and whatever release_buffers is.
C4_ReadFromConnOnceSafe ==
    /\ ~fault
    /\ last.op = "ReadFromConnOnce" => ~last.panic /\ last.post = last.pre \o last.chunk

\* C5: a ReadRequest that finds the buffer of a live adapter empty and eof unset
\* returns -1 with the read-retry flags set, and a thread that is about to take
\* the data lock for a ReadRequest never finds it held by a thread that is
\* inside the connection read or waiting for a lock.
C5_WouldBlock ==
    /\ (IsRead /\ last.live /\ last.size >= 0 /\ last.pre = <<>> /\ ~last.eof)
            => last.rc = -1 /\ ShouldRetry(last.flags) /\ ShouldRead(last.flags)
    /\ \A t \in Threads : pc[t] = "rr_lock" /\ rdata_mtx # 0
            => pc[rdata_mtx] \in {"rr_body", "rp_body", "rf_grow", "rf_finish", "me_body"}

\* A ReadRequest returns WouldBlock while another thread is inside the
\* connection read of ReadFromConnOnce.
C5_Witness ==
    /\ IsRead /\ last.live /\ last.size >= 0
    /\ last.rc = -1
    /\ ShouldRetry(last.flags)
    /\ \E t \in Threads : pc[t] = "rf_read"

\* C6: a ReadRequest that finds the buffer of a live adapter empty and eof set
\* returns 0 with the retry flags clear and leaves the buffer empty and eof set,
\* so that the next one finds the same.
C6_CleanEof ==
    (IsRead /\ last.live /\ last.size >= 0 /\ last.pre = <<>> /\ last.eof)
        => last.rc = 0 /\ RetryClear(last.flags) /\ last.post = <<>> /\ reof

\* A ReadRequest returns CleanEOF as the third operation after a MarkEOF.
C6_Witness ==
    /\ IsRead /\ last.live /\ last.eof
    /\ last.rc = 0
    /\ nops >= 3
    /\ rdelivered = <<>>

\* C7: a ReadRequest with a capacity of size >= 0 on a buffer of L > 0 bytes
\* returns min(size, L), takes exactly that many bytes from the front and leaves
\* the rest in order.
C7_ReadCount ==
    (IsRead /\ last.live /\ last.data # NIL /\ last.size >= 0 /\ last.pre # <<>>)
        => /\ last.rc = Min(last.size, Len(last.pre))
           /\ last.rc <= last.size
           /\ last.out = SubSeq(last.pre, 1, last.rc)
           /\ last.post = Drop(last.pre, last.rc)

\* The call signals retry: a read that found the buffer of a live adapter empty
\* and eof unset.
SignalsRetry == IsRead /\ last.live /\ last.size >= 0 /\ last.pre = <<>> /\ ~last.eof

\* C8: when a write or read entry point returns, the retry flags of its BIO are
\* clear unless the call signals retry, and then the read-retry flags are set.
C8_RetryFlags ==
    (IsRead \/ IsWrite)
        => IF SignalsRetry
           THEN ShouldRetry(last.flags) /\ ShouldRead(last.flags)
           ELSE RetryClear(last.flags)

\* The call that returns began after Disconnect had taken the token out of the
\* BIO.
AfterDisconnect == "tok" \in DOMAIN last /\ last.tok = NoToken

\* C9: a foreign call that begins after Disconnect has completed fails hard and
\* changes nothing: it does not find the adapter; read and write return -1 with
\* the retry flags clear, the pending queries and the flush request return 0,
\* and the buffer stays as it is.
C9_AfterDisconnect ==
    AfterDisconnect =>
        /\ ~last.live
        /\ last.post = last.pre
        /\ (IsRead \/ IsWrite) => last.rc = -1 /\ RetryClear(last.flags)
        /\ (last.op = "go_read_bio_ctrl" /\ last.cmd = "BIO_CTRL_PENDING") => last.rc = 0
        /\ (last.op = "go_write_bio_ctrl" /\ last.cmd \in {"BIO_CTRL_WPENDING", "BIO_CTRL_FLUSH"})
              => last.rc = 0

\* The argument pair is malformed: a negative size, or no data with a size that
\* is not zero.
Malformed == last.size < 0 \/ (last.data = NIL /\ last.size # 0)

\* C10: a write or read entry call on a live adapter with malformed arguments
\* returns -1 without the retry flag and leaves the buffer as it is.
C10_MalformedCall ==
    ((IsRead \/ IsWrite) /\ last.live /\ Malformed)
        => last.rc = -1 /\ ~ShouldRetry(last.flags) /\ last.post = last.pre

\* The arguments of a write are well-formed: a size >= 0, and data unless the
\* size is zero.
WriteWellFormed == last.size >= 0 /\ (last.data # NIL \/ last.size = 0)

\* C11: a write entry call on a live adapter with well-formed arguments, a nil
\* source with size zero included, returns the requested size without a retry
\* flag, and the buffer becomes the old buffer followed by that many bytes, the
\* latest appended.
C11_AppendTotal ==
    (IsWrite /\ last.live /\ WriteWellFormed)
        => /\ last.rc = last.size
           /\ RetryClear(last.flags)
           /\ last.post = last.pre \o SubSeq(wappended, Len(wappended) - last.size + 1, Len(wappended))

\* C12: a ReadFromConnOnce whose connection read reported the clean end of the
\* stream leaves eof set.
C12_EofFromConn ==
    (last.op = "ReadFromConnOnce" /\ last.err = "EOF") => last.eofpost /\ reof

\* C13: no step resets eof: once true it stays true, so it changes at most
\* once.
C13_EofMonotonic == [][reof => reof']_vars

\* eof is set, and a ReadRequest returned after it was.
C13_Witness ==
    /\ reof
    /\ IsRead /\ last.live /\ last.eof
    /\ last.post = <<>>

\* C14: a ReadFromConnOnce whose connection read returned an error other than
\* the clean end of the stream returns to its caller, with that error, and
\* leaves eof as it found it.
C14_ErrorKeepsEof ==
    (last.op = "ReadFromConnOnce" /\ last.err = "err")
        => ~last.panic /\ last.eofpost = last.eofpre

\* C15: a ReadFromConnOnce whose connection read returned n > 0 bytes with an
\* error returns n and the error, and the buffer is the buffer it found followed
\* by the n bytes.
C15_PartialReadKept ==
    (last.op = "ReadFromConnOnce" /\ last.n > 0 /\ last.err # NIL)
        => ~last.panic /\ last.post = last.pre \o last.chunk

\* The step just taken returned from WriteToConn, to the owner or to
\* writeBioFlush, after a connection write.
IsFlush == last.op \in {"WriteToConn", "go_write_bio_ctrl"} /\ "offered" \in DOMAIN last /\ last.offered # <<>>

\* C16: a Flush that wrote to the connection wrote once: the connection took
\* the first n bytes of the one snapshot offered, WriteToConn returns n with the
\* connection's error, exactly the first n bytes leave the buffer, and what
\* stays begins with the byte after the last one accepted.
C16_FlushOnce ==
    IsFlush
        => /\ last.n <= Len(last.offered)
           /\ Len(wconn) >= last.n
           /\ SubSeq(wconn, Len(wconn) - last.n + 1, Len(wconn)) = SubSeq(last.offered, 1, last.n)
           /\ last.op = "WriteToConn" => last.rc = last.n
           /\ last.post = Drop(last.pre, last.n)
           /\ last.post # <<>> => Head(last.post) = Len(wconn) + 1

\* A Flush returns an error after a short write, with bytes left to write.
C16_Witness ==
    /\ last.op = "WriteToConn"
    /\ last.offered # <<>>
    /\ last.err # NIL
    /\ last.n > 0
    /\ last.n < Len(last.offered)
    /\ last.post # <<>>

C18_RetiredOnce ==
    [][\A t \in Threads :
        /\ (pc[t] = "wd_del" /\ pc'[t] = "wd_clear")
              => /\ wtok # NoToken => MappingGet(wmap, wtok) = "wb"
                 /\ MappingRefs(wmap) \ MappingRefs(wmap') \subseteq {"wb"}
        /\ (pc[t] = "rd_del" /\ pc'[t] = "rd_clear")
              => /\ rtok # NoToken => MappingGet(rmap, rtok) = "rb"
                 /\ MappingRefs(rmap) \ MappingRefs(rmap') \subseteq {"rb"}]_vars

\* The step just taken was a lookup through the BIO bio of the given side.
IsLookup(side, bio) == last.op = "loadPtr" /\ last.side = side /\ last.bio = bio

OneTokenEach(m) == \A j, k \in DOMAIN m : m[j] = m[k] => j = k

WriteDataSteps == {"ww_body", "wp_body", "wf_snap", "wf_trunc"}
ReadDataSteps == {"rr_body", "rp_body", "rf_grow", "rf_finish", "me_body"}

\* Thread t took the step.
Stepped(t) == pc'[t] # pc[t]

InConnCall == \E t \in Threads : pc[t] \in {"wf_write", "rf_read"}

\* The positions inside Pending, Append and ReadRequest.
ShortSteps == {"wp_lock", "wp_body", "ww_lock", "ww_body", "rp_lock", "rp_body", "rr_lock", "rr_body"}

IsPending ==
    /\ last.op \in {"go_write_bio_ctrl", "go_read_bio_ctrl"}
    /\ last.cmd \in {"BIO_CTRL_WPENDING", "BIO_CTRL_PENDING"}

\* C22: Pending, Append and ReadRequest do not wait for connection I/O: when a
\* Flush or a ReadFromConnOnce stays inside its connection call for ever, a
\* Pending, Append or ReadRequest that another thread has started still
\* completes; and a Pending that finds the adapter returns the number of bytes
\* the buffer holds while it has the data lock, a connection call in progress or
\* not.
C22_NonBlocking ==
    /\ (<>[]InConnCall) => \A t \in Threads : (pc[t] \in ShortSteps) ~> (pc[t] = "idle")
    /\ [](IsPending /\ last.live =>
            /\ last.rc = Len(last.pre)
            /\ last.op = "go_write_bio_ctrl" => last.pre = wbuf.b
            /\ last.op = "go_read_bio_ctrl" => last.pre = rbuf.b)

\* A Pending returns the count of a buffer that holds bytes while another thread
\* is inside the connection write.
C22_Witness ==
    /\ IsPending /\ last.live /\ last.rc > 0
    /\ InConnCall

EntryPoints == {"go_write_bio_write", "go_write_bio_ctrl", "go_read_bio_read", "go_read_bio_ctrl"}

\* The call that just returned panicked inside.
Panicked == "panic" \in DOMAIN last /\ last.panic

\* C23: a foreign entry point turns a fault raised at any step of its body into
\* the return value -1, and has released the data lock of its adapter when it
\* returns: the fault does not leave the entry point, and no thread that is back
\* from an entry point holds a data lock.
C23_FaultContained ==
    last.op \in EntryPoints =>
        /\ Panicked => last.rc = -1 /\ ~fault
        /\ \A t \in Threads : pc[t] = "idle" => wdata_mtx # t /\ rdata_mtx # t

RECURSIVE SumSeq(_)
SumSeq(q) == IF q = <<>> THEN 0 ELSE q[1] + SumSeq(Tail(q))

\* ceil(a / b)
CeilDiv(a, b) == (a + b - 1) \div b

\* A return of Flush, through go_write_bio_ctrl or WriteToConn.
IsFlushRet == last.op \in {"go_write_bio_ctrl", "WriteToConn"} /\ "n" \in DOMAIN last

\* C24: with N bytes buffered, no Append while the buffer is drained and a
\* connection that accepts exactly k bytes a call (the last call the rest),
\* exactly ceil(N/k) Flush calls that reach the connection drain the buffer: the
\* i-th writes min(k, N - k(i-1)) bytes, the buffer is empty after ceil(N/k) of
\* them and not before; each Flush returns the count by which the buffer got
\* shorter, and Pending returns what is left, 0 at the end.
C24_DrainCount ==
    LET N == Len(wappended)
        k == DrainChunk
    IN /\ \A i \in 1..Len(wwrites) : wwrites[i] = Min(k, N - k * (i - 1))
       /\ Len(wwrites) <= CeilDiv(N, k)
       /\ Idle /\ wwrites # <<>> => (len(wbuf) = 0 <=> Len(wwrites) = CeilDiv(N, k))
       /\ Idle => len(wbuf) = N - SumSeq(wwrites)
       /\ IsFlushRet => last.rc = last.n /\ Len(last.post) = Len(last.pre) - last.rc
       /\ IsPending /\ last.live => last.rc = N - SumSeq(wwrites)

\* 21 bytes at 5 bytes a call: Flush returns 5, 5, 5, 5, 1 and Pending returns 0.
C24_Witness ==
    /\ Len(wappended) = 21
    /\ wwrites = <<5, 5, 5, 5, 1>>
    /\ IsPending /\ last.live /\ last.rc = 0

IsAnyRead == last.op = "anyBio.Read"

\* C25, as the claim states it: anyBio.Read returns no error in any case: 0 bytes
\* for a non-positive result of the foreign read, n bytes for a positive result
\* n, and 0 bytes for an empty buffer without calling the foreign read.
C25_ReadNoError ==
    IsAnyRead =>
        /\ last.err = NIL
        /\ last.buflen = 0 => last.n = 0 /\ ~last.called
        /\ last.buflen > 0 /\ last.r <= 0 => last.n = 0
        /\ last.buflen > 0 /\ last.r > 0 => last.n = last.r

\* C25, amended: anyBio.Read returns 0 bytes together with io.EOF for a
\* non-positive result of the foreign read; a positive result n is returned as n
\* bytes with no error, and an empty buffer returns 0 with no error without
\* calling the foreign read.
C25_ReadEof ==
    IsAnyRead =>
        /\ last.buflen = 0 => last.n = 0 /\ last.err = NIL /\ ~last.called
        /\ last.buflen > 0 => last.called
        /\ last.buflen > 0 /\ last.r <= 0 => last.n = 0 /\ last.err = "io.EOF"
        /\ last.buflen > 0 /\ last.r > 0 => last.n = last.r /\ last.err = NIL

\* The foreign read failed with -1 and Read returned (0, io.EOF).
C25_Witness == IsAnyRead /\ last.r = -1 /\ last.n = 0 /\ last.err = "io.EOF"

\* No byte that entered an adapter is lost, doubled or out of order, and no
\* operation has panicked.
StreamsIntact ==
    /\ ~fault
    /\ IsPrefix(wconn, wappended)
    /\ IsPrefix(rhanded, rdelivered)
    /\ Idle => wconn \o wbuf.b = wappended /\ rhanded \o rbuf.b = rdelivered

\* C26: release_buffers changes nothing that can be observed: an adapter that
\* gives up its drained buffer hands on the same bytes as one that keeps it,
\* every byte that entered once and in order, and no operation faults on the
\* released buffer.
C26_ReleaseTransparent == (wrelease \/ rrelease) => StreamsIntact

\* The adapter that keeps its buffer, for comparison.
KeepIntact == ~(wrelease \/ rrelease) => StreamsIntact

\* C27: a ReadFromConnOnce makes exactly one connection read, into a tail of at
\* least SSLRecordSize (16384) free bytes right after the bytes held; making that
\* room keeps every byte held and the length; and with no ReadRequest in between
\* the buffer after the call is the buffer before it followed by the n bytes
\* read, unchanged when n = 0.
C27_OneReadIntoTail ==
    /\ \A t \in Threads : pc[t] = "rf_read" =>
            /\ cap(loc[t].snap) - len(loc[t].snap) >= SSLRecordSize
            /\ rbuf = loc[t].snap
            /\ rhanded \o rbuf.b = rdelivered
    /\ Len(rchunks) <= nops
    /\ SumSeq(rchunks) = Len(rdelivered)
    /\ last.op = "ReadFromConnOnce" =>
            /\ ~last.panic
            /\ rchunks # <<>> /\ rchunks[Len(rchunks)] = last.n
            /\ last.chunk = Drop(rdelivered, Len(rdelivered) - last.n)
            /\ last.post = last.pre \o last.chunk
            /\ Len(last.post) = Len(last.pre) + last.n
            /\ rbuf.b = last.post

\* A ReadFromConnOnce found bytes in the buffer, made room behind them in a new
\* array and appended what it read.
C27_Witness ==
    /\ last.op = "ReadFromConnOnce" /\ last.n > 0 /\ last.pre # <<>>
    /\ cap(rbuf) > SSLRecordSize

\* The positions at which a thread waits for the op lock, and for the data lock.
OpLockSteps == {"wf_oplock", "rf_oplock"}
DataLockSteps == {"ww_lock", "wp_lock", "wf_lock1", "wf_lock2", "rr_lock", "rp_lock", "rf_lock1", "rf_lock2", "me_lock"}

\* Thread t holds a data lock.
HoldsData(t) == wdata_mtx = t \/ rdata_mtx = t

\* The locks are taken in the order op lock, data lock: no thread waits for an
\* op lock while it holds a data lock, and no holder of a data lock waits for
\* any lock.
LockOrder ==
    \A t \in Threads :
        /\ pc[t] \in OpLockSteps => ~HoldsData(t)
        /\ HoldsData(t) => pc[t] \notin OpLockSteps \cup DataLockSteps

C29_EofAfterDrain ==
    /\ IsRead /\ last.live /\ last.rc = 0 => last.pre = <<>> /\ last.eof
    /\ IsRead /\ last.live /\ last.pre # <<>> /\ last.size >= 0 => last.rc > 0
    /\ IsRead /\ last.live /\ last.pre # <<>> /\ last.size > 0 /\ last.data # NIL =>
            /\ last.rc = Min(last.size, Len(last.pre))
            /\ last.out = SubSeq(last.pre, 1, last.rc)
            /\ last.post = Drop(last.pre, last.rc)
    /\ IsPrefix(rhanded, rdelivered)
    /\ last.op = "MarkEOF" => rbuf.b = last.pre /\ last.post = last.pre /\ reof

\* A ReadRequest returns bytes that ReadFromConnOnce delivered though eof is set.
C29_Witness == IsRead /\ last.live /\ last.eof /\ last.rc > 0 /\ last.out # <<>>

IsWriteCtrl == last.op = "go_write_bio_ctrl"
IsReadCtrl == last.op = "go_read_bio_ctrl"

\* C30: the control commands. On the write side WPENDING returns the count of
\* bytes buffered, FLUSH runs one Flush and returns the count the connection
\* accepted, or 0 when the connection write failed (the bytes it accepted are
\* removed all the same) or no adapter is found, DUP returns 1 and any other
\* command 0. On the read side PENDING returns the count of bytes buffered, FLUSH
\* and DUP return 1 and any other command 0. No command but the write-side
\* FLUSH changes a buffer, and none changes eof.
C30_CtrlMapping ==
    /\ [](IsWriteCtrl =>
            /\ last.cmd = "BIO_CTRL_WPENDING" => last.rc = (IF last.live THEN Len(last.pre) ELSE 0)
            /\ last.cmd = "BIO_CTRL_FLUSH" /\ ~last.live => last.rc = 0 /\ last.post = last.pre
            /\ last.cmd = "BIO_CTRL_FLUSH" /\ last.live =>
                    /\ last.rc = (IF last.err # NIL THEN 0 ELSE last.n)
                    /\ last.n <= Len(last.offered)
                    /\ last.post = Drop(last.pre, last.n)
            /\ last.cmd = "BIO_CTRL_DUP" => last.rc = 1
            /\ last.cmd = "BIO_CTRL_OTHER" => last.rc = 0
            /\ last.cmd # "BIO_CTRL_FLUSH" => last.post = last.pre
            /\ wbuf.b = last.post)
    /\ [](IsReadCtrl =>
            /\ last.cmd = "BIO_CTRL_PENDING" => last.rc = (IF last.live THEN Len(last.pre) ELSE 0)
            /\ last.cmd \in {"BIO_CTRL_FLUSH", "BIO_CTRL_DUP"} => last.rc = 1
            /\ last.cmd = "BIO_CTRL_OTHER" => last.rc = 0
            /\ last.post = last.pre
            /\ rbuf.b = last.pre)
    /\ [][/\ last'.op = "go_read_bio_ctrl" => rbuf' = rbuf /\ reof' = reof
          /\ last'.op = "go_write_bio_ctrl" /\ last'.cmd # "BIO_CTRL_FLUSH" => wbuf' = wbuf]_vars

\* The connection accepted bytes and failed: the write-side FLUSH returns 0 and
\* the bytes are gone from the buffer.
C30_Witness ==
    /\ IsWriteCtrl /\ last.cmd = "BIO_CTRL_FLUSH" /\ last.live
    /\ last.err # NIL /\ last.n > 0 /\ last.rc = 0
    /\ Len(last.post) < Len(last.pre)

====
